---- MODULE Spec2Model ----
(***************************************************************************)
(* Decentralised task allocation of the emergency response system:        *)
(* incident agents (auctioneers) broadcast a call for proposals, resource  *)
(* agents (bidders) answer with bids and run a BDI reasoning cycle.        *)
(*                                                                         *)
(* Space is one axis.  A location is an integer number of ticks; one tick *)
(* is the length of one movement step (move_speed * 0.1 = 0.2 units), so   *)
(* TicksPerUnit ticks are one unit of the map.  Fuel is counted in         *)
(* thousandths (one movement step burns 0.001).  A cost or arrival time is *)
(* the exact fraction [num, den] in map units.  Priorities are tenths.     *)
(* None is the empty sequence, Some(v) the one-element sequence <<v>>.     *)
(***************************************************************************)
EXTENDS Integers, Sequences, FiniteSets, Bags, TLC

VARIABLES
    incident,         \* incident agent -> IncidentData (status, assigned_agents, ...)
    proposals,        \* incident agent -> List[Bid]
    cfp_runs,         \* incident agent -> number of CFPBehaviour runs so far
    bm_pc,            \* incident agent -> where BidManagementBehaviour stands
    net,              \* bag of the messages in flight
    state,            \* resource agent -> AgentState
    current_incident, \* resource agent -> ResourceAgentLogic.current_incident
    desires,          \* resource agent -> BDIAgent.desires
    intentions,       \* resource agent -> BDIAgent.intentions
    beliefs,          \* resource agent -> BeliefBase.beliefs
    behaviour,        \* resource agent -> its two SPADE behaviours, running or killed
    log,              \* incident agent -> the CFP runs, accepts and rejects so far (history)
    probe,            \* the last application of a pure function (function specs only)
    sim_agent,        \* demo mode: agent -> the fields of its SimulatedAgent
    sim_pc,           \* demo mode: agent -> where its thread stands in run()
    system_state      \* demo mode: the shared dict of web_server (incidents, agents)

vars == <<incident, proposals, cfp_runs, bm_pc, net, state, current_incident,
          desires, intentions, beliefs, behaviour, log, probe,
          sim_agent, sim_pc, system_state>>

\* the variables of the SPADE system and those of the demo mode
spade_vars == <<incident, proposals, cfp_runs, bm_pc, net, state, current_incident,
                desires, intentions, beliefs, behaviour, log, probe>>

demo_vars == <<sim_agent, sim_pc, system_state>>

\* the demo mode is not running
NoDemo == sim_agent = <<>> /\ sim_pc = <<>> /\ system_state = <<>>

-----------------------------------------------------------------------------
(* Bounds of the model *)

MaxCFP == 2          \* CFPBehaviour runs, all incident agents together
MaxDesires == 4      \* length of an agent's desire list

(* Program constants *)

TicksPerUnit == 5    \* 1.0 / (move_speed * 0.1)
MoveSpeedTenths == 20 \* move_speed = 2.0 units per second
FuelPerMove == 1     \* 0.001
LowFuel == 300       \* fuel_level < 0.3
RefuelBelow == 500   \* fuel_level < 0.5
RefuelUrgent == 200  \* fuel_level > 0.2
FullFuel == 1000     \* fuel_level = 1.0
Quantity == 1        \* ResourceRequirement.quantity

UNKNOWN == 0
MINIMAL == 1
LOW == 2
MEDIUM == 3
HIGH == 4
CRITICAL == 5
SeverityLevel == {UNKNOWN, MINIMAL, LOW, MEDIUM, HIGH, CRITICAL}

IncidentType == {"fire", "medical", "structural_collapse", "hazmat", "flood", "unknown"}
ResourceType == {"fire_truck", "ambulance", "drone", "police", "rescue_team"}
IncidentStatus == {"reported", "confirmed", "in_progress", "resolved", "cancelled"}
AgentStatus == {"idle", "en_route", "engaged", "refueling", "offline"}

Agents == {"a1", "a2"}
Incidents == {"i1", "i2"}

None == <<>>
Some(v) == <<v>>

-----------------------------------------------------------------------------
(* ontology.py *)

Abs(n) == IF n < 0 THEN -n ELSE n

\* Location.distance_to on one axis, in ticks
distance_to(p, q) == Abs(p - q)

\* a < b for fractions with positive denominators
FracLess(a, b) == a.num * b.den < b.num * a.den
FracEq(a, b) == a.num * b.den = b.num * a.den

-----------------------------------------------------------------------------
(* resource_agents.py: ResourceAgentLogic, the pure part *)

\* a capability check that gives every resource type the fire truck's table
can_handle_as_fire_truck(resource_type, cfp_data) ==
    cfp_data.incident_type \in {"fire", "structural_collapse", "hazmat"}

\* a capability check that admits every incident type
can_handle_anything(resource_type, cfp_data) == TRUE

can_handle(resource_type, cfp_data) ==
    IF resource_type = "fire_truck"
    THEN cfp_data.incident_type \in {"fire", "structural_collapse", "hazmat"}
    ELSE IF resource_type = "ambulance"
         THEN cfp_data.incident_type \in {"medical", "structural_collapse"}
         ELSE FALSE

\* the comparison without the extra rank
AbandonThresholdSameRank(current_severity) == current_severity

AbandonThreshold(current_severity) == current_severity + 1

\* [raised, value]: raised is "" or the exception's name
should_abandon_for(cur, new_cfp) ==
    IF cur = None
    THEN [raised |-> "", value |-> TRUE]
    ELSE IF "severity" \notin DOMAIN cur[1]
         THEN [raised |-> "KeyError", value |-> FALSE]
         ELSE [raised |-> "",
               value |-> /\ new_cfp.severity = CRITICAL
                         /\ new_cfp.severity > AbandonThreshold(cur[1].severity)]

\* a penalty that starts at the threshold itself
FuelFactorAtThreshold(fuel_level) == IF fuel_level <= LowFuel THEN 2 ELSE 1

FuelFactor(fuel_level) == IF fuel_level < LowFuel THEN 2 ELSE 1

BidOf(jid, st, cfp_data) ==
    LET distance == distance_to(st.location, cfp_data.location)
    IN [bidder_id |-> jid,
        incident_id |-> cfp_data.incident_id,
        cost |-> [num |-> distance * FuelFactor(st.fuel_level),
                  den |-> TicksPerUnit * (cfp_data.severity + 1)],
        estimated_arrival |-> [num |-> distance * 10,
                               den |-> TicksPerUnit * MoveSpeedTenths],
        agent_type |-> st.agent_type]

\* [raised, value]: value is None (no bid) or Some(bid)
calculate_bid(jid, st, cur, cfp_data) ==
    LET ab == should_abandon_for(cur, cfp_data)
    IN IF st.status = "engaged" /\ ab.raised # ""
       THEN [raised |-> ab.raised, value |-> None]
       ELSE IF st.status = "engaged" /\ ~ab.value
            THEN [raised |-> "", value |-> None]
            ELSE [raised |-> "", value |-> Some(BidOf(jid, st, cfp_data))]

\* a decision that does not look at the actor's status
evaluate_coalition_request_any_status(st, request) ==
    (IF "severity" \in DOMAIN request THEN request.severity ELSE 0) >= MEDIUM

evaluate_coalition_request(st, request) ==
    IF st.status = "engaged"
    THEN FALSE
    ELSE (IF "severity" \in DOMAIN request THEN request.severity ELSE 0) >= MEDIUM

\* a deliberation whose refuel priority also looks at the actor's status
deliberate_by_status(st, cur) ==
    (IF st.fuel_level < RefuelBelow
     THEN <<[goal_id |-> "refuel",
             description |-> "Refuel vehicle",
             priority |-> IF st.fuel_level > RefuelUrgent /\ st.status = "idle"
                          THEN 3 ELSE 9]>>
     ELSE <<>>)
    \o
    (IF cur # None
     THEN <<[goal_id |-> "complete_mission",
             description |-> cur[1].incident_id,
             priority |-> 8]>>
     ELSE <<>>)

deliberate(st, cur) ==
    (IF st.fuel_level < RefuelBelow
     THEN <<[goal_id |-> "refuel",
             description |-> "Refuel vehicle",
             priority |-> IF st.fuel_level > RefuelUrgent THEN 3 ELSE 9]>>
     ELSE <<>>)
    \o
    (IF cur # None
     THEN <<[goal_id |-> "complete_mission",
             description |-> cur[1].incident_id,
             priority |-> 8]>>
     ELSE <<>>)

generate_plan(desire) ==
    IF desire.goal_id = "refuel"
    THEN Some(<<"move_to_base", "refuel">>)
    ELSE IF desire.goal_id = "complete_mission"
         THEN Some(<<"move_to_incident", "execute_response", "report_completion">>)
         ELSE None

\* one step toward the target: (dx / norm) * move_speed * 0.1 is one tick
StepToward(from, target) == IF target > from THEN from + 1 ELSE from - 1

Arrived(distance) == distance < TicksPerUnit

move_to_incident(st, cur) ==
    IF cur = None
    THEN st
    ELSE LET target == cur[1].location
         IN IF Arrived(distance_to(st.location, target))
            THEN [st EXCEPT !.status = "engaged", !.location = target]
            ELSE [st EXCEPT !.location = StepToward(st.location, target),
                            !.fuel_level = st.fuel_level - FuelPerMove]

report_completion(st) == [st EXCEPT !.status = "idle"]

-----------------------------------------------------------------------------
(* bdi_agent.py: BDIAgent *)

means_end_reasoning(desire) ==
    LET plan == generate_plan(desire)
    IN IF plan # None /\ plan[1] # <<>>
       THEN Some([desire |-> desire, plan |-> plan[1],
                  current_step |-> 0, status |-> "active"])
       ELSE None

HasIntentionFor(ints, desire) ==
    \E k \in 1..Len(ints) : ints[k].desire.goal_id = desire.goal_id

\* the planning loop of bdi_cycle over self.desires
RECURSIVE PlanDesires(_, _)
PlanDesires(ds, ints) ==
    IF ds = <<>>
    THEN ints
    ELSE LET d == Head(ds)
             new == means_end_reasoning(d)
         IN PlanDesires(Tail(ds),
                        IF ~HasIntentionFor(ints, d) /\ new # None
                        THEN Append(ints, new[1])
                        ELSE ints)

IsActive(i) == i.status = "active"

\* an insertion that puts x in front of the elements of its own priority
RECURSIVE InsertBeforeEqual(_, _)
InsertBeforeEqual(x, sorted) ==
    IF sorted = <<>>
    THEN <<x>>
    ELSE IF Head(sorted).desire.priority > x.desire.priority
         THEN <<Head(sorted)>> \o InsertBeforeEqual(x, Tail(sorted))
         ELSE <<x>> \o sorted

\* x goes behind every element whose priority is not lower: a stable descending sort
RECURSIVE InsertByPriority(_, _)
InsertByPriority(x, sorted) ==
    IF sorted = <<>>
    THEN <<x>>
    ELSE IF Head(sorted).desire.priority >= x.desire.priority
         THEN <<Head(sorted)>> \o InsertByPriority(x, Tail(sorted))
         ELSE <<x>> \o sorted

RECURSIVE SortByPriority(_)
SortByPriority(ints) ==
    IF ints = <<>>
    THEN <<>>
    ELSE InsertByPriority(ints[Len(ints)], SortByPriority(SubSeq(ints, 1, Len(ints) - 1)))

\* a conflict check that finds no conflict
conflicts_with_never(intention, others) == FALSE

conflicts_with(intention, others) == Len(others) > 0

RECURSIVE Commit(_, _)
Commit(ints, committed) ==
    IF ints = <<>>
    THEN committed
    ELSE Commit(Tail(ints),
                IF ~conflicts_with(Head(ints), committed)
                THEN Append(committed, Head(ints))
                ELSE committed)

filter_intentions(ints) ==
    Commit(SortByPriority(SelectSeq(ints, IsActive)), <<>>)

-----------------------------------------------------------------------------
(* resource_agents.py: ResourceAgentLogic.act *)

\* an advance that passes over a step
AdvanceByTwo(current_step) == current_step + 2

\* current_intention.current_step += 1
Advance(current_step) == current_step + 1

\* [state, current_incident, intentions, raised] after act()
act(st, cur, ints) ==
    LET same == [state |-> st, current_incident |-> cur, intentions |-> ints, raised |-> ""]
    IN IF ints = <<>>
       THEN same
       ELSE LET ci == ints[1]
            IN IF ci.current_step >= Len(ci.plan)
               THEN [same EXCEPT !.intentions = [ints EXCEPT ![1].status = "completed"]]
               ELSE LET action == ci.plan[ci.current_step + 1]
                        stepped == [ints EXCEPT ![1].current_step = Advance(ci.current_step)]
                    IN IF action = "move_to_incident"
                       THEN [same EXCEPT !.state = move_to_incident(st, cur),
                                         !.intentions = stepped]
                       ELSE IF action \in {"execute_response", "report_completion"} /\ cur = None
                            THEN [same EXCEPT !.raised = "TypeError"]
                            ELSE IF action = "report_completion"
                                 THEN [same EXCEPT !.state = report_completion(st),
                                                   !.current_incident = None,
                                                   !.intentions = stepped]
                                 ELSE [same EXCEPT !.intentions = stepped]

-----------------------------------------------------------------------------
(* bdi_agent.py: BeliefBase and perceive *)

DefaultConfidence == 100   \* confidence 1.0, in hundredths

\* the key f"{key}_confidence" of a percept key
ConfidenceKey(key) ==
    CASE key = "current_mission" -> "current_mission_confidence"
      [] key = "mission_location" -> "mission_location_confidence"
      [] key = "mission_type" -> "mission_type_confidence"
      [] key = "fuel" -> "fuel_confidence"
      [] key = "fuel_confidence" -> "fuel_confidence_confidence"
      [] key = "source" -> "source_confidence"
      [] OTHER -> "_confidence"

BeliefFor(percept, key) ==
    [key |-> key,
     value |-> percept[key],
     confidence |-> IF ConfidenceKey(key) \in DOMAIN percept
                    THEN percept[ConfidenceKey(key)]
                    ELSE DefaultConfidence,
     source |-> IF "source" \in DOMAIN percept THEN percept["source"] ELSE "self"]

\* BeliefBase.beliefs is a dict: here the sequence of its values in the dict's order,
\* which is the order in which the keys were first inserted

HasKey(bel, key) == \E k \in 1..Len(bel) : bel[k].key = key

\* an insertion that never replaces
add_belief_appends(bel, belief) == Append(bel, belief)

add_belief(bel, belief) ==
    IF HasKey(bel, belief.key)
    THEN [k \in 1..Len(bel) |-> IF bel[k].key = belief.key THEN belief ELSE bel[k]]
    ELSE Append(bel, belief)

get_belief(bel, key) ==
    IF HasKey(bel, key)
    THEN Some(bel[CHOOSE k \in 1..Len(bel) : bel[k].key = key])
    ELSE None

remove_belief(bel, key) ==
    IF HasKey(bel, key)
    THEN SelectSeq(bel, LAMBDA b : b.key # key)
    ELSE bel

get_all_beliefs(bel) == bel

\* a predicate is the set of the beliefs it holds of
query(bel, predicate) == SelectSeq(bel, LAMBDA b : b \in predicate)

\* the keys of a percept in the order of the dict commit_to_incident builds; the keys
\* of the other percepts of the model follow
PerceptOrder ==
    <<"current_mission", "mission_location", "mission_type",
      "fuel", "fuel_confidence", "source">>

RECURSIVE AddAll(_, _, _)
AddAll(bel, percept, keys) ==
    IF keys = <<>>
    THEN bel
    ELSE AddAll(add_belief(bel, BeliefFor(percept, Head(keys))), percept, Tail(keys))

\* a perception that keeps the belief a key already has
perceive_first_wins(bel, percept) ==
    AddAll(bel, percept,
           SelectSeq(PerceptOrder, LAMBDA k : k \in DOMAIN percept /\ ~HasKey(bel, k)))

perceive(bel, percept) ==
    AddAll(bel, percept, SelectSeq(PerceptOrder, LAMBDA k : k \in DOMAIN percept))

-----------------------------------------------------------------------------
(* Messages.  A broadcast is one copy for every resource agent. *)

Msg(performative, sender, to, conversation_id, body) ==
    [performative |-> performative, sender |-> sender, to |-> to,
     conversation_id |-> conversation_id, body |-> body]

Send(bag, msgs) == bag (+) msgs
Receive(bag, m) == bag (-) SetToBag({m})

Inbox(who, performatives) ==
    {m \in BagToSet(net) : m.to = who /\ m.performative \in performatives}

RECURSIVE SeqToBag(_)
SeqToBag(s) == IF s = <<>> THEN EmptyBag ELSE SetToBag({Head(s)}) (+) SeqToBag(Tail(s))

\* a history entry: what was done, the incident's status then, and for an accept or a
\* reject the bid (its bidder and timestamp), for a CFP run the number of recorded bids
Event(ev, status, bidder, ts) == [ev |-> ev, status |-> status, bidder |-> bidder, ts |-> ts]

-----------------------------------------------------------------------------
(* incident_agent.py *)

cfp_content(inc) ==
    [incident_id |-> inc.incident_id,
     incident_type |-> inc.incident_type,
     severity |-> inc.severity,
     location |-> inc.location,
     resources_needed |-> inc.resources_needed,
     estimated_victims |-> inc.estimated_victims]

RECURSIVE Sum(_, _)
Sum(f, S) == IF S = {} THEN 0 ELSE LET x == CHOOSE y \in S : TRUE IN f[x] + Sum(f, S \ {x})

TotalCFP == Sum(cfp_runs, Incidents)

\* CFPBehaviour.run: the first run is the one IncidentAgent.setup adds
CFPBehaviourRun(i) ==
    /\ TotalCFP < MaxCFP
    /\ cfp_runs' = [cfp_runs EXCEPT ![i] = @ + 1]
    /\ net' = Send(net, SetToBag({Msg("call_for_proposal", i, a, i, cfp_content(incident[i]))
                                  : a \in Agents}))
    /\ log' = [log EXCEPT ![i] = Append(@, Event("cfp", incident[i].status, "", Len(proposals[i])))]
    /\ UNCHANGED <<incident, proposals, bm_pc, state, current_incident, desires,
                   intentions, beliefs, behaviour, probe, demo_vars>>

\* handle_proposal up to its sleep: the bid is recorded, stamped with the time of receipt
HandleProposal(i) ==
    /\ cfp_runs[i] > 0
    /\ bm_pc[i] = "receive"
    /\ \E m \in Inbox(i, {"propose"}) :
          LET bid == [bidder_id |-> m.body.bidder_id,
                      incident_id |-> incident[i].incident_id,
                      cost |-> m.body.cost,
                      estimated_arrival |-> m.body.estimated_arrival,
                      timestamp |-> Len(proposals[i]) + 1]
          IN /\ net' = Receive(net, m)
             /\ proposals' = [proposals EXCEPT ![i] = Append(@, bid)]
    /\ bm_pc' = [bm_pc EXCEPT ![i] = "sleeping"]
    /\ UNCHANGED <<incident, cfp_runs, state, current_incident, desires, intentions,
                   beliefs, behaviour, log, probe, demo_vars>>

\* a selection that lets a later bid of equal cost win
RECURSIVE MinBidLast(_)
MinBidLast(bids) ==
    IF Len(bids) = 1
    THEN bids[1]
    ELSE LET rest == MinBidLast(Tail(bids))
         IN IF FracLess(Head(bids).cost, rest.cost) THEN Head(bids) ELSE rest

\* min(proposals, key=lambda b: b.cost): the first bid no later bid undercuts
RECURSIVE MinBid(_)
MinBid(bids) ==
    IF Len(bids) = 1
    THEN bids[1]
    ELSE LET rest == MinBid(Tail(bids))
         IN IF FracLess(rest.cost, Head(bids).cost) THEN rest ELSE Head(bids)

accept_msg(inc, bid) ==
    Msg("accept", inc.incident_id, bid.bidder_id, inc.incident_id,
        [incident_id |-> inc.incident_id,
         location |-> inc.location,
         incident_type |-> inc.incident_type])

reject_msg(inc, bid) ==
    Msg("reject", inc.incident_id, bid.bidder_id, bid.incident_id,
        [incident_id |-> bid.incident_id])

\* an acceptance that reopens an incident already in progress
accept_bid_reopens(inc, bid) ==
    [inc EXCEPT !.assigned_agents = Append(@, bid.bidder_id),
                !.status = IF inc.status = "in_progress" THEN "reported" ELSE "in_progress"]

accept_bid(inc, bid) ==
    [inc EXCEPT !.assigned_agents = Append(@, bid.bidder_id),
                !.status = "in_progress"]

Others(bids, best) == SelectSeq(bids, LAMBDA b : b.bidder_id # best.bidder_id)

RejectEvents(bids, status) ==
    [k \in 1..Len(bids) |-> Event("reject", status, bids[k].bidder_id, bids[k].timestamp)]

RejectMsgs(inc, bids) == [k \in 1..Len(bids) |-> reject_msg(inc, bids[k])]

\* handle_proposal after its sleep: select, accept, reject the others
HandleProposalSelect(i) ==
    /\ bm_pc[i] = "sleeping"
    /\ bm_pc' = [bm_pc EXCEPT ![i] = "receive"]
    /\ IF proposals[i] # <<>>
       THEN LET best_bid == MinBid(proposals[i])
                others == Others(proposals[i], best_bid)
            IN /\ incident' = [incident EXCEPT ![i] = accept_bid(@, best_bid)]
               /\ net' = Send(net, SetToBag({accept_msg(incident[i], best_bid)})
                                   (+) SeqToBag(RejectMsgs(incident[i], others)))
               /\ log' = [log EXCEPT ![i] =
                            @ \o <<Event("accept", incident[i].status,
                                         best_bid.bidder_id, best_bid.timestamp)>>
                              \o RejectEvents(others, "in_progress")]
       ELSE UNCHANGED <<incident, net, log>>
    /\ UNCHANGED <<proposals, cfp_runs, state, current_incident, desires, intentions,
                   beliefs, behaviour, probe, demo_vars>>

-----------------------------------------------------------------------------
(* resource_agents.py: CFPListenerBehaviour and ActionExecutionBehaviour.  An
   exception that leaves a behaviour's run() kills that behaviour. *)

Kill(a, which) == [behaviour EXCEPT ![a][which] = "killed"]

handle_cfp(a, m) ==
    LET cfp_data == m.body
        bid == calculate_bid(a, state[a], current_incident[a], cfp_data)
    IN IF ~can_handle(state[a].agent_type, cfp_data)
       THEN /\ net' = Receive(net, m)
            /\ UNCHANGED behaviour
       ELSE IF bid.raised # ""
            THEN /\ net' = Receive(net, m)
                 /\ behaviour' = Kill(a, "cfp_listener")
            ELSE IF bid.value # None
                 THEN /\ net' = Send(Receive(net, m),
                                     SetToBag({Msg("propose", a, m.sender,
                                                   cfp_data.incident_id, bid.value[1])}))
                      /\ UNCHANGED behaviour
                 ELSE /\ net' = Receive(net, m)
                      /\ UNCHANGED behaviour

HandleCFP(a) ==
    /\ behaviour[a].cfp_listener = "running"
    /\ \E m \in Inbox(a, {"call_for_proposal"}) : handle_cfp(a, m)
    /\ UNCHANGED <<incident, proposals, cfp_runs, bm_pc, state, current_incident,
                   desires, intentions, beliefs, log, probe, demo_vars>>

commit_percept(assignment) ==
    [k \in {"current_mission", "mission_location", "mission_type"} |->
        CASE k = "current_mission" -> assignment.incident_id
          [] k = "mission_location" -> assignment.location
          [] OTHER -> assignment.incident_type]

commit_state(st, assignment) ==
    [st EXCEPT !.status = "en_route", !.current_incident = assignment.incident_id]

\* handle_acceptance: commit_to_incident(assignment)
HandleAcceptance(a) ==
    /\ behaviour[a].cfp_listener = "running"
    /\ \E m \in Inbox(a, {"accept"}) :
          /\ net' = Receive(net, m)
          /\ current_incident' = [current_incident EXCEPT ![a] = Some(m.body)]
          /\ state' = [state EXCEPT ![a] = commit_state(@, m.body)]
          /\ beliefs' = [beliefs EXCEPT ![a] = perceive(@, commit_percept(m.body))]
    /\ UNCHANGED <<incident, proposals, cfp_runs, bm_pc, desires, intentions,
                   behaviour, log, probe, demo_vars>>

\* a rejection that releases the actor
HandleRejectionUnbinds(a) ==
    /\ behaviour[a].cfp_listener = "running"
    /\ \E m \in Inbox(a, {"reject"}) : net' = Receive(net, m)
    /\ state' = [state EXCEPT ![a].status = "idle", ![a].current_incident = "None"]
    /\ current_incident' = [current_incident EXCEPT ![a] = None]
    /\ UNCHANGED <<incident, proposals, cfp_runs, bm_pc, desires, intentions, beliefs,
                   behaviour, log, probe, demo_vars>>

HandleRejection(a) ==
    /\ behaviour[a].cfp_listener = "running"
    /\ \E m \in Inbox(a, {"reject"}) : net' = Receive(net, m)
    /\ UNCHANGED <<incident, proposals, cfp_runs, bm_pc, state, current_incident,
                   desires, intentions, beliefs, behaviour, log, probe, demo_vars>>

\* ActionExecutionBehaviour.run: execute_actions() is one bdi_cycle()
BdiCycle(a) ==
    LET new_desires == deliberate(state[a], current_incident[a])
        ds == desires[a] \o new_desires
        planned == PlanDesires(ds, intentions[a])
        filtered == filter_intentions(planned)
        done == act(state[a], current_incident[a], filtered)
    IN /\ behaviour[a].action_execution = "running"
       /\ Len(ds) <= MaxDesires
       /\ desires' = [desires EXCEPT ![a] = ds]
       /\ intentions' = [intentions EXCEPT ![a] = done.intentions]
       /\ state' = [state EXCEPT ![a] = done.state]
       /\ current_incident' = [current_incident EXCEPT ![a] = done.current_incident]
       /\ behaviour' = IF done.raised # "" THEN Kill(a, "action_execution") ELSE behaviour
       /\ UNCHANGED <<incident, proposals, cfp_runs, bm_pc, net, beliefs, log, probe, demo_vars>>

-----------------------------------------------------------------------------
(* The system *)

NewIncident(i, type, severity, location) ==
    [incident_id |-> i, incident_type |-> type, severity |-> severity,
     location |-> location, status |-> "reported",
     resources_needed |-> <<[resource_type |-> IF type = "fire" THEN "fire_truck"
                                                                ELSE "ambulance",
                             quantity |-> Quantity,
                             priority |-> severity]>>,
     estimated_victims |-> 0,
     assigned_agents |-> <<>>]

NewAgentState(a, type, location, fuel) ==
    [agent_id |-> a, agent_type |-> type, status |-> "idle", location |-> location,
     fuel_level |-> fuel, current_incident |-> "None"]

DefaultAgents ==
    [a \in Agents |->
        IF a = "a1" THEN NewAgentState(a, "fire_truck", 4, FullFuel)
                    ELSE NewAgentState(a, "ambulance", 10, FullFuel)]

InitRest ==
    /\ proposals = [i \in Incidents |-> <<>>]
    /\ cfp_runs = [i \in Incidents |-> 0]
    /\ bm_pc = [i \in Incidents |-> "receive"]
    /\ net = EmptyBag
    /\ current_incident = [a \in Agents |-> None]
    /\ desires = [a \in Agents |-> <<>>]
    /\ intentions = [a \in Agents |-> <<>>]
    /\ beliefs = [a \in Agents |-> <<>>]
    /\ behaviour = [a \in Agents |-> [cfp_listener |-> "running", action_execution |-> "running"]]
    /\ log = [i \in Incidents |-> <<>>]
    /\ probe = <<>>
    /\ NoDemo

Init ==
    /\ \E s2 \in {HIGH, CRITICAL} :
          incident = [i \in Incidents |->
                        IF i = "i1" THEN NewIncident(i, "structural_collapse", MEDIUM, 0)
                                    ELSE NewIncident(i, "fire", s2, 8)]
    /\ state = DefaultAgents
    /\ InitRest

Next ==
    \/ \E i \in Incidents : CFPBehaviourRun(i)
    \/ \E i \in Incidents : HandleProposal(i)
    \/ \E i \in Incidents : HandleProposalSelect(i)
    \/ \E a \in Agents : HandleCFP(a)
    \/ \E a \in Agents : HandleAcceptance(a)
    \/ \E a \in Agents : HandleRejection(a)
    \/ \E a \in Agents : BdiCycle(a)

Spec == Init /\ [][Next]_vars

-----------------------------------------------------------------------------
(* The incident agent alone: bids in flight after one CFP, drawn from what
   calculate_bid gives two fire trucks at some distances and fuel levels. *)

MaxBids == 3         \* PROPOSE messages in flight at the start

Standing == {<<25, FullFuel>>, <<15, 100>>, <<30, FullFuel>>}

ProposeFrom(a, location, fuel, inc) ==
    Msg("propose", a, inc.incident_id, inc.incident_id,
        calculate_bid(a, NewAgentState(a, "fire_truck", location, fuel), None,
                      cfp_content(inc)).value[1])

InitAuctioneer ==
    /\ \E s1 \in {MEDIUM, CRITICAL} :
          /\ incident = [i \in Incidents |->
                           IF i = "i1" THEN NewIncident(i, "fire", s1, 0)
                                       ELSE NewIncident(i, "fire", HIGH, 8)]
          /\ \E n \in 1..MaxBids :
                \E who \in [1..n -> Agents], where \in [1..n -> Standing] :
                   net = SeqToBag([k \in 1..n |->
                                     ProposeFrom(who[k], where[k][1], where[k][2],
                                                 NewIncident("i1", "fire", s1, 0))])
    /\ state = DefaultAgents
    /\ proposals = [i \in Incidents |-> <<>>]
    /\ cfp_runs = [i \in Incidents |-> IF i = "i1" THEN 1 ELSE 0]
    /\ bm_pc = [i \in Incidents |-> "receive"]
    /\ current_incident = [a \in Agents |-> None]
    /\ desires = [a \in Agents |-> <<>>]
    /\ intentions = [a \in Agents |-> <<>>]
    /\ beliefs = [a \in Agents |-> <<>>]
    /\ behaviour = [a \in Agents |-> [cfp_listener |-> "running", action_execution |-> "running"]]
    /\ log = [i \in Incidents |->
                IF i = "i1" THEN <<Event("cfp", "reported", "", 0)>> ELSE <<>>]
    /\ probe = <<>>
    /\ NoDemo

NextAuctioneer ==
    \/ \E i \in Incidents : HandleProposal(i)
    \/ \E i \in Incidents : HandleProposalSelect(i)

SpecAuctioneer == InitAuctioneer /\ [][NextAuctioneer]_vars

-----------------------------------------------------------------------------
(* One resource agent's reasoning: ACCEPT messages in flight, fuel and place drawn *)

MaxAccepts == 2      \* ACCEPT messages in flight at the start

DefaultIncidents ==
    [i \in Incidents |->
        IF i = "i1" THEN NewIncident(i, "structural_collapse", MEDIUM, 0)
                    ELSE NewIncident(i, "fire", HIGH, 8)]

InitBDI ==
    /\ incident = DefaultIncidents
    /\ \E l1 \in {4, 10}, f1 \in {FullFuel, 400, RefuelUrgent + 1, 100, 0} :
          state = [a \in Agents |->
                     IF a = "a1" THEN NewAgentState(a, "fire_truck", l1, f1)
                                 ELSE NewAgentState(a, "ambulance", 10, FullFuel)]
    /\ \E n \in 0..MaxAccepts :
          \E from \in [1..n -> Incidents] :
             net = SeqToBag([k \in 1..n |->
                               accept_msg(DefaultIncidents[from[k]], [bidder_id |-> "a1"])])
    /\ proposals = [i \in Incidents |-> <<>>]
    /\ cfp_runs = [i \in Incidents |-> 1]
    /\ bm_pc = [i \in Incidents |-> "receive"]
    /\ current_incident = [a \in Agents |-> None]
    /\ desires = [a \in Agents |-> <<>>]
    /\ intentions = [a \in Agents |-> <<>>]
    /\ beliefs = [a \in Agents |-> <<>>]
    /\ behaviour = [a \in Agents |-> [cfp_listener |-> "running", action_execution |-> "running"]]
    /\ log = [i \in Incidents |-> <<>>]
    /\ probe = <<>>
    /\ NoDemo

NextBDI ==
    \/ \E a \in Agents : BdiCycle(a)
    \/ \E a \in Agents : HandleAcceptance(a)

SpecBDI == InitBDI /\ [][NextBDI]_vars

-----------------------------------------------------------------------------
(* calculate_bid as a function: the agent's status, mission, place and fuel and
   the CFP are drawn; current_incident is None, an assignment as ACCEPT carries
   it, or an assignment that also carries a severity. *)

Assignment(i) == accept_msg(DefaultIncidents[i], [bidder_id |-> "a1"]).body

WithSeverity(assignment, severity) ==
    [k \in (DOMAIN assignment) \cup {"severity"} |->
        IF k = "severity" THEN severity ELSE assignment[k]]

Missions ==
    {None, Some(Assignment("i1"))}
    \cup {Some(WithSeverity(Assignment("i1"), c)) : c \in SeverityLevel}

InitBid ==
    /\ \E st \in AgentStatus, l1 \in {4, 8, 25}, f1 \in {FullFuel, LowFuel, LowFuel - 1} :
          state = [a \in Agents |->
                     IF a = "a1"
                     THEN [NewAgentState(a, "fire_truck", l1, f1) EXCEPT !.status = st]
                     ELSE NewAgentState(a, "ambulance", 10, FullFuel)]
    /\ \E cur \in Missions :
          current_incident = [a \in Agents |-> IF a = "a1" THEN cur ELSE None]
    /\ incident = DefaultIncidents
    /\ net = EmptyBag
    /\ proposals = [i \in Incidents |-> <<>>]
    /\ cfp_runs = [i \in Incidents |-> 0]
    /\ bm_pc = [i \in Incidents |-> "receive"]
    /\ desires = [a \in Agents |-> <<>>]
    /\ intentions = [a \in Agents |-> <<>>]
    /\ beliefs = [a \in Agents |-> <<>>]
    /\ behaviour = [a \in Agents |-> [cfp_listener |-> "running", action_execution |-> "running"]]
    /\ log = [i \in Incidents |-> <<>>]
    /\ probe = <<>>
    /\ NoDemo

CalculateBidCall(a) ==
    /\ \E n \in SeverityLevel :
          LET cfp_data == cfp_content(NewIncident("i2", "fire", n, 8))
          IN probe' = Some([agent |-> a,
                            cfp |-> cfp_data,
                            abandon |-> should_abandon_for(current_incident[a], cfp_data),
                            bid |-> calculate_bid(a, state[a], current_incident[a], cfp_data)])
    /\ UNCHANGED <<incident, proposals, cfp_runs, bm_pc, net, state, current_incident,
                   desires, intentions, beliefs, behaviour, log, demo_vars>>

NextBid == \E a \in Agents : CalculateBidCall(a)

SpecBid == InitBid /\ [][NextBid]_vars

-----------------------------------------------------------------------------
(* Properties *)

Events(i, kind) == {k \in 1..Len(log[i]) : log[i][k].ev = kind}

Sent(i) == Events(i, "accept") \cup Events(i, "reject")

Added(m) == CopiesIn(m, net') > CopiesIn(m, net)

Taken(m) == CopiesIn(m, net') < CopiesIn(m, net)

\* C1: an incident with one CFP broadcast gets at most one ACCEPT message.
C1_AtMostOneAccept ==
    \A i \in Incidents : cfp_runs[i] = 1 => Cardinality(Events(i, "accept")) <= 1

Committed(i) ==
    {a \in Agents : /\ state[a].current_incident = i
                    /\ current_incident[a] # None
                    /\ current_incident[a][1].incident_id = i}

RECURSIVE RequiredQuantity(_)
RequiredQuantity(reqs) ==
    IF reqs = <<>> THEN 0 ELSE Head(reqs).quantity + RequiredQuantity(Tail(reqs))

\* C2: the actors bound to an incident never outnumber the quantity it requires.
C2_CommittedWithinQuantity ==
    \A i \in Incidents :
        Cardinality(Committed(i)) <= RequiredQuantity(incident[i].resources_needed)

\* C3: every ACCEPT goes to the bidder of the recorded bid of least cost, and among
\* the bids of least cost to the one recorded first (the earliest timestamp).
C3_AcceptGoesToFirstMinimum ==
    [][\A i \in Incidents :
          \A k \in (Len(log[i]) + 1)..Len(log'[i]) :
             log'[i][k].ev = "accept" =>
                LET e == log'[i][k]
                    bids == proposals'[i]
                IN /\ e.ts \in 1..Len(bids)
                   /\ bids[e.ts].bidder_id = e.bidder
                   /\ \A j \in 1..Len(bids) :
                         /\ ~FracLess(bids[j].cost, bids[e.ts].cost)
                         /\ FracEq(bids[j].cost, bids[e.ts].cost)
                               => bids[j].timestamp >= bids[e.ts].timestamp
                   /\ \E m \in BagToSet(net') :
                         /\ m.performative = "accept" /\ m.sender = i /\ m.to = e.bidder
                         /\ Added(m)
                   /\ \A m \in BagToSet(net') :
                         m.performative = "accept" /\ Added(m) => m.to = e.bidder]_vars

\* the last selection chose among all recorded bids, with another bidder's bid of the
\* same cost recorded later and a dearer bid recorded too
C3_Witness ==
    \E i \in Incidents : \E k \in Events(i, "accept") :
        LET e == log[i][k]
            bids == proposals[i]
        IN /\ bm_pc[i] = "receive"
           /\ \A r \in Events(i, "accept") : r <= k
           /\ \E j \in 1..Len(bids) :
                 /\ j > e.ts
                 /\ FracEq(bids[j].cost, bids[e.ts].cost)
                 /\ bids[j].bidder_id # e.bidder
           /\ \E j \in 1..Len(bids) : FracLess(bids[e.ts].cost, bids[j].cost)

BidPairs(i) ==
    {<<m.body.bidder_id, m.body.cost>> : m \in Inbox(i, {"propose"})}
    \cup {<<proposals[i][k].bidder_id, proposals[i][k].cost>> : k \in 1..Len(proposals[i])}

BidCount(i) ==
    LET flying == Inbox(i, {"propose"})
    IN Sum([m \in flying |-> CopiesIn(m, net)], flying) + Len(proposals[i])

\* Bidder A at distance 5 with fuel 1.0, Bidder B at distance 3 with fuel 0.1,
\* one bid each for a CRITICAL incident
Scenario(i) ==
    /\ incident[i].severity = CRITICAL
    /\ BidCount(i) = 2
    /\ BidPairs(i) = {<<"a1", ProposeFrom("a1", 25, FullFuel, incident[i]).body.cost>>,
                      <<"a2", ProposeFrom("a2", 15, 100, incident[i]).body.cost>>}

\* C4: in the scenario A's cost is the lower one, no ACCEPT ever goes to B, and once
\* both bids are handled A holds an ACCEPT and B a REJECT.
C4_ScenarioAWins ==
    \A i \in Incidents :
        Scenario(i) =>
           /\ FracLess(ProposeFrom("a1", 25, FullFuel, incident[i]).body.cost,
                       ProposeFrom("a2", 15, 100, incident[i]).body.cost)
           /\ \A k \in Events(i, "accept") : log[i][k].bidder = "a1"
           /\ (Len(proposals[i]) = 2 /\ bm_pc[i] = "receive")
                 => /\ \E k \in Events(i, "accept") : log[i][k].bidder = "a1"
                    /\ \E k \in Events(i, "reject") : log[i][k].bidder = "a2"

\* C5: current_incident of the actor state is set only while the actor is EN_ROUTE
\* or ENGAGED.
C5_IncidentOnlyWhileBusy ==
    \A a \in Agents :
        state[a].current_incident # "None" => state[a].status \in {"en_route", "engaged"}

\* C6: between BDI cycles an actor holds at most one intention.
C6_AtMostOneIntention ==
    \A a \in Agents : Len(intentions[a]) <= 1

GoalsOf(ds) == {ds[k].goal_id : k \in 1..Len(ds)}

\* a cycle that had a refuel and a mission intention to choose from has acted
C6_Witness ==
    \E a \in Agents :
        /\ GoalsOf(desires[a]) = {"refuel", "complete_mission"}
        /\ Len(intentions[a]) = 1
        /\ intentions[a][1].current_step >= 1

\* C7: an ENGAGED actor that knows the severity c of its incident abandons it for a
\* CFP of severity n exactly when n is CRITICAL and at least two ranks above c; when
\* it does not abandon, calculate_bid gives no bid.
C7_AbandonRule ==
    probe # None =>
       LET p == probe[1]
           cur == current_incident[p.agent]
           n == p.cfp.severity
       IN (state[p.agent].status = "engaged" /\ cur # None /\ "severity" \in DOMAIN cur[1])
             => LET c == cur[1].severity
                IN /\ p.abandon.raised = ""
                   /\ p.abandon.value <=> (n = CRITICAL /\ n - c >= 2)
                   /\ p.abandon.value <=> (n = CRITICAL /\ c <= MEDIUM)
                   /\ (c = HIGH /\ n = CRITICAL) => ~p.abandon.value
                   /\ n < CRITICAL => ~p.abandon.value
                   /\ ~p.abandon.value => p.bid = [raised |-> "", value |-> None]
                   /\ p.abandon.value => (p.bid.raised = "" /\ p.bid.value # None)

\* an actor ENGAGED on a MEDIUM incident was asked about a CRITICAL one and bids
C7_Witness ==
    /\ probe # None
    /\ state[probe[1].agent].status = "engaged"
    /\ current_incident[probe[1].agent] # None
    /\ "severity" \in DOMAIN current_incident[probe[1].agent][1]
    /\ current_incident[probe[1].agent][1].severity = MEDIUM
    /\ probe[1].cfp.severity = CRITICAL
    /\ probe[1].abandon.value
    /\ probe[1].bid.value # None

\* C8: an actor committed by an ACCEPT to a MEDIUM incident and ENGAGED answers a CFP
\* it can handle normally: with a PROPOSE for a CRITICAL incident, with nothing for
\* a HIGH one.
C8_EngagedActorAnswersCFP ==
    [][\A a \in Agents : \A m \in Inbox(a, {"call_for_proposal"}) :
          ( /\ Taken(m)
            /\ state[a].status = "engaged"
            /\ current_incident[a] # None
            /\ incident[current_incident[a][1].incident_id].severity = MEDIUM
            /\ can_handle(state[a].agent_type, m.body)
            /\ m.body.severity \in {HIGH, CRITICAL} )
          => /\ behaviour'[a].cfp_listener = "running"
             /\ m.body.severity = CRITICAL
                   => \E p \in BagToSet(net') :
                         p.performative = "propose" /\ p.sender = a /\ p.to = m.sender
                         /\ Added(p)
             /\ m.body.severity = HIGH
                   => \A p \in BagToSet(net') : ~Added(p)]_vars

\* C9: once the incident is no longer REPORTED a PROPOSE is dropped: no bid is
\* recorded, no ACCEPT or REJECT is sent, assigned_agents stays as it is.
C9_LateBidDropped ==
    [][\A i \in Incidents :
          incident[i].status # "reported"
             => /\ proposals'[i] = proposals[i]
                /\ \A k \in (Len(log[i]) + 1)..Len(log'[i]) :
                      log'[i][k].ev \notin {"accept", "reject"}
                /\ incident'[i].assigned_agents = incident[i].assigned_agents]_vars

\* C10: a CFP run for an incident that is no longer REPORTED changes nothing: the bids
\* recorded then are the bids recorded ever after, no ACCEPT or REJECT follows it,
\* status and assigned agents stay.
C10_RebroadcastNoOp ==
    \A i \in Incidents : \A k \in Events(i, "cfp") :
        log[i][k].status # "reported"
           => /\ Len(proposals[i]) = log[i][k].ts
              /\ \A r \in Sent(i) : r < k
              /\ incident[i].status = log[i][k].status
              /\ Len(incident[i].assigned_agents)
                    = Cardinality({r \in Events(i, "accept") : r < k})

Bidders(i) == {proposals[i][k].bidder_id : k \in 1..Len(proposals[i])}

Told(i, kind) == {log[i][k].bidder : k \in Events(i, kind)}

LastAccept(i) == log[i][CHOOSE k \in Events(i, "accept") : \A r \in Events(i, "accept") : r <= k]

\* C11: once a selection is over, every bidder with a recorded bid other than the
\* winner has been sent a REJECT, and no bidder is sent both an ACCEPT and a REJECT
\* for one incident.
C11_RejectOthersNeverBoth ==
    \A i \in Incidents :
        /\ (bm_pc[i] = "receive" /\ Events(i, "accept") # {})
              => \A b \in Bidders(i) \ {LastAccept(i).bidder} : b \in Told(i, "reject")
        /\ Told(i, "accept") \cap Told(i, "reject") = {}

-----------------------------------------------------------------------------
(* Completion.  BidManagementBehaviour is added with a template that admits PROPOSE
   only, so its run() never receives an INFORM: handle_status_update is what it
   would do with one.  _report_completion sends no message. *)

handle_status_update(inc, status_data) ==
    IF "status" \in DOMAIN status_data /\ status_data.status = "resolved"
    THEN [inc EXCEPT !.status = "resolved"]
    ELSE inc

\* Missions from the acceptance to the report.  i1 has called, both agents have
\* answered; the bid of a2, handled first, is recorded and accepted, the cheaper bid
\* of a1 is in flight.
FirstBid(inc) ==
    [bidder_id |-> "a2",
     incident_id |-> inc.incident_id,
     cost |-> ProposeFrom("a2", DefaultAgents["a2"].location, FullFuel, inc).body.cost,
     estimated_arrival |-> ProposeFrom("a2", DefaultAgents["a2"].location, FullFuel,
                                       inc).body.estimated_arrival,
     timestamp |-> 1]

InitMission ==
    /\ incident = [i \in Incidents |->
                     IF i = "i1" THEN accept_bid(DefaultIncidents[i], FirstBid(DefaultIncidents[i]))
                                 ELSE DefaultIncidents[i]]
    /\ \E l1 \in {4, 9} :
          /\ state = [a \in Agents |->
                        IF a = "a1" THEN NewAgentState(a, "fire_truck", l1, FullFuel)
                                    ELSE DefaultAgents[a]]
          /\ net = SetToBag({accept_msg(DefaultIncidents["i1"], FirstBid(DefaultIncidents["i1"])),
                             ProposeFrom("a1", l1, FullFuel, DefaultIncidents["i1"])})
    /\ proposals = [i \in Incidents |->
                      IF i = "i1" THEN <<FirstBid(DefaultIncidents[i])>> ELSE <<>>]
    /\ cfp_runs = [i \in Incidents |-> IF i = "i1" THEN 1 ELSE 0]
    /\ bm_pc = [i \in Incidents |-> "receive"]
    /\ current_incident = [a \in Agents |-> None]
    /\ desires = [a \in Agents |-> <<>>]
    /\ intentions = [a \in Agents |-> <<>>]
    /\ beliefs = [a \in Agents |-> <<>>]
    /\ behaviour = [a \in Agents |-> [cfp_listener |-> "running", action_execution |-> "running"]]
    /\ log = [i \in Incidents |->
                IF i = "i1" THEN <<Event("cfp", "reported", "", 0),
                                   Event("accept", "reported", "a2", 1)>>
                            ELSE <<>>]
    /\ probe = <<>>
    /\ NoDemo

NextMission ==
    \/ \E i \in Incidents : HandleProposal(i)
    \/ \E i \in Incidents : HandleProposalSelect(i)
    \/ \E a \in Agents : HandleAcceptance(a)
    \/ \E a \in Agents : HandleRejection(a)
    \/ \E a \in Agents : BdiCycle(a)

\* Every run ends, by the program and not by a bound: an agent makes three cycles
\* for its mission and four more until _execute_response, planned again for the
\* desire that is never dropped, raises on current_incident = None.  With weak
\* fairness of the next-state relation a run ends only when no message is left to
\* deliver and no behaviour has a step left.
SpecMission == InitMission /\ [][NextMission]_vars /\ WF_vars(NextMission)

Assigned(i) == {incident[i].assigned_agents[k] : k \in 1..Len(incident[i].assigned_agents)}

\* the state _report_completion leaves: IDLE, with the incident still in the state
Completed(a, i) == state[a].status = "idle" /\ state[a].current_incident = i

\* C12: once the actor assigned to an incident has reported completion, the incident
\* eventually becomes RESOLVED.
C12_CompletionResolves ==
    \A i \in Incidents : \A a \in Agents :
        (a \in Assigned(i) /\ Completed(a, i)) ~> (incident[i].status = "resolved")

-----------------------------------------------------------------------------
(* A HAZMAT incident and no fire truck: a1 is an ambulance, a2 an ambulance or a
   police unit; the other incident is a medical one. *)

InitHazmat ==
    /\ incident = [i \in Incidents |->
                     IF i = "i1" THEN NewIncident(i, "hazmat", CRITICAL, 0)
                                 ELSE NewIncident(i, "medical", MEDIUM, 8)]
    /\ \E t2 \in {"ambulance", "police"} :
          state = [a \in Agents |->
                     IF a = "a1" THEN NewAgentState(a, "ambulance", 4, FullFuel)
                                 ELSE NewAgentState(a, t2, 10, FullFuel)]
    /\ InitRest

\* the contract net without the agents' reasoning cycles
NextProtocol ==
    \/ \E i \in Incidents : CFPBehaviourRun(i)
    \/ \E i \in Incidents : HandleProposal(i)
    \/ \E i \in Incidents : HandleProposalSelect(i)
    \/ \E a \in Agents : HandleCFP(a)
    \/ \E a \in Agents : HandleAcceptance(a)
    \/ \E a \in Agents : HandleRejection(a)

SpecHazmat == InitHazmat /\ [][NextProtocol]_vars

NoPropose(i) == proposals[i] = <<>> /\ Inbox(i, {"propose"}) = {}

FromIncident(i, performatives) ==
    {m \in BagToSet(net) : m.sender = i /\ m.performative \in performatives}

\* C13: an incident for which no PROPOSE was sent (bids are recorded or in flight,
\* never dropped) is REPORTED, has no assigned actor and has sent no ACCEPT and no
\* REJECT; a HAZMAT incident gets no PROPOSE when no actor is a fire truck.
C13_NoBidStaysReported ==
    \A i \in Incidents :
        /\ NoPropose(i)
              => /\ incident[i].status = "reported"
                 /\ incident[i].assigned_agents = <<>>
                 /\ Sent(i) = {}
                 /\ FromIncident(i, {"accept", "reject"}) = {}
        /\ (incident[i].incident_type = "hazmat"
              /\ \A a \in Agents : state[a].agent_type # "fire_truck")
              => NoPropose(i)

\* the HAZMAT call was made and every agent has dropped it, while the other incident
\* was answered and is in progress
C13_Witness ==
    \E i \in Incidents :
        /\ incident[i].incident_type = "hazmat"
        /\ cfp_runs[i] >= 1
        /\ FromIncident(i, {"call_for_proposal"}) = {}
        /\ NoPropose(i)
        /\ \E j \in Incidents \ {i} : incident[j].status = "in_progress"

-----------------------------------------------------------------------------

\* the abandonment rule between the incident an actor is bound to and a new one
Qualifies(new_severity, bound_to) ==
    /\ new_severity = CRITICAL
    /\ new_severity > AbandonThreshold(incident[bound_to].severity)

\* C14: an actor bound to incident I by an ACCEPT stays bound to I until it reports
\* completion or the abandonment rule is met; while EN_ROUTE to I it sends no PROPOSE
\* for, and is not rebound to, another incident that does not meet the rule.
C14_BoundUntilCompletion ==
    [][\A a \in Agents :
          current_incident[a] # None =>
             LET I == current_incident[a][1].incident_id
             IN /\ current_incident'[a] # current_incident[a]
                      => \/ current_incident'[a] = None
                         \/ Qualifies(incident[current_incident'[a][1].incident_id].severity, I)
                /\ \A m \in Inbox(a, {"call_for_proposal"}) :
                      ( /\ Taken(m)
                        /\ state[a].status = "en_route"
                        /\ m.body.incident_id # I
                        /\ ~Qualifies(m.body.severity, I) )
                      => \A p \in BagToSet(net') : p.performative = "propose" => ~Added(p)]_vars

\* C15: an actor ENGAGED on incident I that takes an ACCEPT for another incident J of
\* no higher severity keeps its status and stays bound to I.
C15_NoDoubleCommit ==
    [][\A a \in Agents : \A m \in Inbox(a, {"accept"}) :
          ( /\ Taken(m)
            /\ state[a].status = "engaged"
            /\ current_incident[a] # None
            /\ m.body.incident_id # current_incident[a][1].incident_id
            /\ incident[current_incident[a][1].incident_id].severity
                  >= incident[m.body.incident_id].severity )
          => /\ state'[a].status = state[a].status
             /\ state'[a].current_incident = state[a].current_incident
             /\ current_incident'[a] = current_incident[a]]_vars

-----------------------------------------------------------------------------
(* Capability: the type of a1 and the type of i1 are drawn, calls are made and
   answered. *)

InitCapability ==
    /\ \E t1 \in ResourceType, ty \in IncidentType :
          /\ state = [a \in Agents |->
                        IF a = "a1" THEN NewAgentState(a, t1, 4, FullFuel)
                                    ELSE NewAgentState(a, "ambulance", 10, FullFuel)]
          /\ incident = [i \in Incidents |->
                           IF i = "i1" THEN NewIncident(i, ty, MEDIUM, 0)
                                       ELSE NewIncident(i, "fire", HIGH, 8)]
    /\ InitRest

NextCapability ==
    \/ \E i \in Incidents : CFPBehaviourRun(i)
    \/ \E a \in Agents : HandleCFP(a)

SpecCapability == InitCapability /\ [][NextCapability]_vars

Able(resource_type, incident_type) ==
    \/ resource_type = "fire_truck" /\ incident_type \in {"fire", "structural_collapse", "hazmat"}
    \/ resource_type = "ambulance" /\ incident_type \in {"medical", "structural_collapse"}

\* C16: an actor answers a CFP with a PROPOSE only if its type handles the incident
\* type (fire truck: FIRE, STRUCTURAL_COLLAPSE, HAZMAT; ambulance: MEDICAL,
\* STRUCTURAL_COLLAPSE; others: nothing); a CFP it cannot handle adds no message and
\* leaves the actor as it was.
C16_BidOnlyIfCapable ==
    [][\A a \in Agents : \A m \in Inbox(a, {"call_for_proposal"}) :
          Taken(m) =>
             LET able == Able(state[a].agent_type, m.body.incident_type)
             IN /\ can_handle(state[a].agent_type, m.body) <=> able
                /\ (\E p \in BagToSet(net') : p.sender = a /\ Added(p)) => able
                /\ ~able => /\ \A p \in BagToSet(net') : ~Added(p)
                            /\ state'[a] = state[a]
                            /\ current_incident'[a] = current_incident[a]
                            /\ intentions'[a] = intentions[a]
                            /\ desires'[a] = desires[a]
                            /\ beliefs'[a] = beliefs[a]
                            /\ behaviour'[a] = behaviour[a]]_vars

\* a call was answered by one agent and dropped by another that cannot handle it
C16_Witness ==
    \E i \in Incidents : \E a, b \in Agents :
        /\ cfp_runs[i] >= 1
        /\ FromIncident(i, {"call_for_proposal"}) = {}
        /\ ~Able(state[a].agent_type, incident[i].incident_type)
        /\ \A p \in Inbox(i, {"propose"}) : p.sender # a
        /\ Able(state[b].agent_type, incident[i].incident_type)
        /\ \E p \in Inbox(i, {"propose"}) : p.sender = b

-----------------------------------------------------------------------------

\* C17: a bid's cost is d / (s + 1) when the fuel level is at least 0.3 and twice that
\* below 0.3; at equal distance and fuel a higher severity never costs more; the
\* estimated arrival is d / move_speed.
C17_CostFormula ==
    (probe # None /\ probe[1].bid.value # None) =>
       LET p == probe[1]
           st == state[p.agent]
           bid == p.bid.value[1]
           d == distance_to(st.location, p.cfp.location)
           s == p.cfp.severity
       IN /\ st.fuel_level >= LowFuel
                => bid.cost.num * TicksPerUnit * (s + 1) = d * bid.cost.den
          /\ st.fuel_level < LowFuel
                => bid.cost.num * TicksPerUnit * (s + 1) = 2 * d * bid.cost.den
          /\ \A s2 \in SeverityLevel :
                s2 > s => ~FracLess(bid.cost,
                                    BidOf(p.agent, st, [p.cfp EXCEPT !.severity = s2]).cost)
          /\ bid.estimated_arrival.num * MoveSpeedTenths * TicksPerUnit
                = 10 * d * bid.estimated_arrival.den

\* a bid was computed at a distance above zero with the fuel level exactly 0.3
C17_Witness ==
    /\ probe # None
    /\ probe[1].bid.value # None
    /\ state[probe[1].agent].fuel_level = LowFuel
    /\ distance_to(state[probe[1].agent].location, probe[1].cfp.location) > 0
    /\ probe[1].cfp.severity = CRITICAL

-----------------------------------------------------------------------------
(* Coalition requests: REQUEST messages to a1 in flight, with or without a severity,
   the status of a1 drawn. *)

MaxRequests == 2     \* REQUEST messages in flight at the start

Requests ==
    {[coalition_id |-> "c1"]} \cup {[coalition_id |-> "c1", severity |-> n] : n \in SeverityLevel}

\* a reply that agrees whatever the decision
coalition_reply_agrees(a, m, decision) ==
    Msg("agree", a, m.sender, "", [coalition_id |-> m.body.coalition_id])

\* agree_msg / refuse_msg: to the sender of the request, no conversation-id is set
coalition_reply(a, m, decision) ==
    Msg(IF decision THEN "agree" ELSE "refuse", a, m.sender, "",
        [coalition_id |-> m.body.coalition_id])

\* handle_coalition_request: AGREE or REFUSE goes back to the sender
HandleCoalitionRequest(a) ==
    /\ behaviour[a].cfp_listener = "running"
    /\ \E m \in Inbox(a, {"request"}) :
          LET decision == evaluate_coalition_request(state[a], m.body)
              reply == coalition_reply(a, m, decision)
          IN /\ net' = Send(Receive(net, m), SetToBag({reply}))
             /\ probe' = Some([agent |-> a, request |-> m.body,
                               decision |-> decision, reply |-> reply])
    /\ UNCHANGED <<incident, proposals, cfp_runs, bm_pc, state, current_incident,
                   desires, intentions, beliefs, behaviour, log, demo_vars>>

InitCoalition ==
    /\ \E st \in AgentStatus :
          state = [a \in Agents |->
                     IF a = "a1"
                     THEN [NewAgentState(a, "fire_truck", 4, FullFuel) EXCEPT !.status = st]
                     ELSE NewAgentState(a, "ambulance", 10, FullFuel)]
    /\ \E n \in 1..MaxRequests : \E body \in [1..n -> Requests] :
          net = SeqToBag([k \in 1..n |-> Msg("request", "a2", "a1", "c1", body[k])])
    /\ incident = DefaultIncidents
    /\ proposals = [i \in Incidents |-> <<>>]
    /\ cfp_runs = [i \in Incidents |-> 0]
    /\ bm_pc = [i \in Incidents |-> "receive"]
    /\ current_incident = [a \in Agents |-> None]
    /\ desires = [a \in Agents |-> <<>>]
    /\ intentions = [a \in Agents |-> <<>>]
    /\ beliefs = [a \in Agents |-> <<>>]
    /\ behaviour = [a \in Agents |-> [cfp_listener |-> "running", action_execution |-> "running"]]
    /\ log = [i \in Incidents |-> <<>>]
    /\ probe = <<>>
    /\ NoDemo

NextCoalition == \E a \in Agents : HandleCoalitionRequest(a)

SpecCoalition == InitCoalition /\ [][NextCoalition]_vars

-----------------------------------------------------------------------------

\* C19: handling a REJECT leaves the actor's status, current_incident, location, fuel
\* level and intentions as they were.
C19_RejectChangesNothing ==
    [][\A a \in Agents : \A m \in Inbox(a, {"reject"}) :
          Taken(m) => /\ state'[a].status = state[a].status
                      /\ state'[a].current_incident = state[a].current_incident
                      /\ state'[a].location = state[a].location
                      /\ state'[a].fuel_level = state[a].fuel_level
                      /\ current_incident'[a] = current_incident[a]
                      /\ intentions'[a] = intentions[a]]_vars

\* an actor on a mission, with an intention, has handled every REJECT sent to it
C19_Witness ==
    \E a \in Agents :
        /\ \E i \in Incidents : a \in Told(i, "reject")
        /\ Inbox(a, {"reject"}) = {}
        /\ state[a].status \in {"en_route", "engaged"}
        /\ current_incident[a] # None
        /\ intentions[a] # <<>>

-----------------------------------------------------------------------------
(* The belief base of a1 under add_belief and remove_belief; probe is the sequence
   of the operations applied so far. *)

MaxOps == 4          \* operations on the belief base

BeliefKeys == {"current_mission", "fuel"}

SomeBeliefs ==
    {[key |-> k, value |-> v, confidence |-> DefaultConfidence, source |-> src]
        : k \in BeliefKeys, v \in {"i1", "i2"}, src \in {"self"}}

AddBelief(a) ==
    /\ Len(probe) < MaxOps
    /\ \E belief \in SomeBeliefs :
          /\ beliefs' = [beliefs EXCEPT ![a] = add_belief(@, belief)]
          /\ probe' = Append(probe, [op |-> "add", key |-> belief.key, belief |-> belief])
    /\ UNCHANGED <<incident, proposals, cfp_runs, bm_pc, net, state, current_incident,
                   desires, intentions, behaviour, log, demo_vars>>

RemoveBelief(a) ==
    /\ Len(probe) < MaxOps
    /\ \E key \in BeliefKeys :
          /\ beliefs' = [beliefs EXCEPT ![a] = remove_belief(@, key)]
          /\ probe' = Append(probe, [op |-> "remove", key |-> key])
    /\ UNCHANGED <<incident, proposals, cfp_runs, bm_pc, net, state, current_incident,
                   desires, intentions, behaviour, log, demo_vars>>

InitBelief ==
    /\ incident = DefaultIncidents
    /\ state = DefaultAgents
    /\ InitRest

NextBelief ==
    \/ \E a \in {"a1"} : AddBelief(a)
    \/ \E a \in {"a1"} : RemoveBelief(a)

SpecBelief == InitBelief /\ [][NextBelief]_vars

\* what the operations so far leave under a key: the belief of the last add if no
\* remove followed it
Expected(ops, key) ==
    LET on == {k \in 1..Len(ops) : ops[k].key = key}
    IN IF on = {}
       THEN None
       ELSE LET last == CHOOSE k \in on : \A r \in on : r <= k
            IN IF ops[last].op = "add" THEN Some(ops[last].belief) ELSE None

AboutI1 == {b \in SomeBeliefs : b.value = "i1"}

Stored(bel) == {bel[k] : k \in 1..Len(bel)}

\* C20: get_belief gives the belief added last under the key unless the key was
\* removed since, and nothing otherwise; there is one belief per key at most;
\* removing an absent key changes nothing; query gives exactly the stored beliefs
\* that satisfy the predicate.
C20_BeliefStore ==
    LET bel == beliefs["a1"]
    IN /\ \A key \in BeliefKeys : get_belief(bel, key) = Expected(probe, key)
       /\ \A x, y \in 1..Len(bel) : bel[x].key = bel[y].key => x = y
       /\ \A key \in BeliefKeys : get_belief(bel, key) = None => remove_belief(bel, key) = bel
       /\ Stored(query(bel, AboutI1)) = {b \in Stored(bel) : b.value = "i1"}
       /\ Len(query(bel, AboutI1)) = Cardinality({b \in Stored(bel) : b.value = "i1"})

\* a belief was added, replaced by another of the same key and removed, and then
\* the key, now absent, was removed again
C20_Witness ==
    /\ Len(probe) = MaxOps
    /\ probe[1].op = "add" /\ probe[2].op = "add"
    /\ probe[2].key = probe[1].key
    /\ probe[2].belief # probe[1].belief
    /\ probe[3] = [op |-> "remove", key |-> probe[1].key]
    /\ probe[4] = probe[3]
    /\ beliefs["a1"] = <<>>

-----------------------------------------------------------------------------

\* the mission intention at the head of an agent's intentions
OnMission(ints) == ints # <<>> /\ ints[1].desire.goal_id = "complete_mission"

\* C21: a committed actor is EN_ROUTE, then ENGAGED, then IDLE: execute_response and
\* report_completion are executed only by an ENGAGED actor that stands within the
\* arrival threshold of its incident, and EN_ROUTE is left only for ENGAGED.
C21_RespondOnlyAfterArrival ==
    [][\A a \in Agents :
          /\ ( /\ OnMission(intentions'[a])
               /\ intentions'[a][1].current_step \in {2, 3}
               /\ \/ intentions[a] = <<>>
                  \/ intentions[a][1].current_step < intentions'[a][1].current_step )
             => /\ state[a].status = "engaged"
                /\ current_incident[a] # None
                /\ Arrived(distance_to(state[a].location, current_incident[a][1].location))
          /\ (state[a].status = "en_route" /\ state'[a].status # "en_route")
                => state'[a].status = "engaged"]_vars

\* the selection that ends the sleep of handle_proposal
WindowCloses(i) == bm_pc[i] = "sleeping" /\ bm_pc'[i] = "receive"

\* C22: a PROPOSE that has come in while handle_proposal sleeps (it waits in the
\* incident agent's mailbox) is among the bids the selection after the sleep chooses
\* from; ACCEPT and REJECT are sent only by that selection.
C22_WindowCollectsBids ==
    [][\A i \in Incidents :
          /\ WindowCloses(i)
                => \A m \in Inbox(i, {"propose"}) :
                      \E k \in 1..Len(proposals[i]) :
                         /\ proposals[i][k].bidder_id = m.body.bidder_id
                         /\ proposals[i][k].cost = m.body.cost
          /\ (\E k \in (Len(log[i]) + 1)..Len(log'[i]) : log'[i][k].ev \in {"accept", "reject"})
                => WindowCloses(i)]_vars

IntentionGoals(ints) == {ints[k].desire.goal_id : k \in 1..Len(ints)}

\* C23: an intention that a cycle creates is for a desire that this cycle's
\* deliberate() returned; a desire of an earlier cycle that deliberation no longer
\* returns creates none.
C23_OnlyFreshDesiresPlanned ==
    [][\A a \in Agents :
          \A g \in IntentionGoals(intentions'[a]) \ IntentionGoals(intentions[a]) :
             g \in GoalsOf(deliberate(state[a], current_incident[a]))]_vars

-----------------------------------------------------------------------------
(* filter_intentions as a function: the intentions of a1 are drawn, one intention
   for each of up to MaxIntentions goals (the goals and priorities that the agents'
   deliberate() use), in any order and status. *)

MaxIntentions == 3   \* intentions in the list that is filtered

Goals == {"refuel", "complete_mission", "explore"}

Priorities == {3, 8, 9}

IntentionOf(goal, priority, status) ==
    [desire |-> [goal_id |-> goal, description |-> goal, priority |-> priority],
     plan |-> <<"move_to_base", "refuel">>, current_step |-> 0, status |-> status]

InitFilter ==
    /\ \E n \in 0..MaxIntentions :
          \E g \in [1..n -> Goals], pr \in [1..n -> Priorities],
             st \in [1..n -> {"active", "completed", "failed"}] :
             /\ \A x, y \in 1..n : g[x] = g[y] => x = y
             /\ intentions = [a \in Agents |->
                                IF a = "a1"
                                THEN [k \in 1..n |-> IntentionOf(g[k], pr[k], st[k])]
                                ELSE <<>>]
    /\ incident = DefaultIncidents
    /\ state = DefaultAgents
    /\ proposals = [i \in Incidents |-> <<>>]
    /\ cfp_runs = [i \in Incidents |-> 0]
    /\ bm_pc = [i \in Incidents |-> "receive"]
    /\ net = EmptyBag
    /\ current_incident = [a \in Agents |-> None]
    /\ desires = [a \in Agents |-> <<>>]
    /\ beliefs = [a \in Agents |-> <<>>]
    /\ behaviour = [a \in Agents |-> [cfp_listener |-> "running", action_execution |-> "running"]]
    /\ log = [i \in Incidents |-> <<>>]
    /\ probe = <<>>
    /\ NoDemo

FilterIntentionsCall(a) ==
    /\ probe = None
    /\ intentions' = [intentions EXCEPT ![a] = filter_intentions(@)]
    /\ probe' = Some([agent |-> a, input |-> intentions[a]])
    /\ UNCHANGED <<incident, proposals, cfp_runs, bm_pc, net, state, current_incident,
                   desires, beliefs, behaviour, log, demo_vars>>

NextFilter == \E a \in {"a1"} : FilterIntentionsCall(a)

SpecFilter == InitFilter /\ [][NextFilter]_vars

ActiveIn(ints) == {k \in 1..Len(ints) : ints[k].status = "active"}

\* the first of the active intentions of highest priority
Best(ints) ==
    CHOOSE k \in ActiveIn(ints) :
        \A j \in ActiveIn(ints) :
            \/ ints[j].desire.priority < ints[k].desire.priority
            \/ ints[j].desire.priority = ints[k].desire.priority /\ j >= k

\* C24: filter_intentions keeps, of the active intentions, the one of highest desire
\* priority, the earliest in the list among equals, and removes every intention that
\* is not active.
C24_FilterKeepsFirstHighest ==
    probe # None =>
       LET in == probe[1].input
           out == intentions[probe[1].agent]
       IN /\ \A k \in 1..Len(out) : out[k].status = "active"
          /\ IF ActiveIn(in) = {} THEN out = <<>> ELSE out = <<in[Best(in)]>>

\* an intention that is not active and has the highest priority came first, then two
\* active ones of equal priority: the first of the two is kept
C24_Witness ==
    /\ probe # None
    /\ Len(probe[1].input) = MaxIntentions
    /\ probe[1].input[1].status # "active"
    /\ probe[1].input[1].desire.priority > probe[1].input[2].desire.priority
    /\ probe[1].input[2].status = "active"
    /\ probe[1].input[3].status = "active"
    /\ probe[1].input[2].desire.priority = probe[1].input[3].desire.priority
    /\ intentions[probe[1].agent] = <<probe[1].input[2]>>

-----------------------------------------------------------------------------

\* C25: in a cycle that an actor with a mission starts with a fuel level of 0.2 or
\* less, deliberation gives a refuel desire of priority 0.9 and a mission desire of
\* priority 0.8, and the one intention kept by that cycle is the refuel intention.
C25_UrgentRefuelWins ==
    [][\A a \in Agents :
          ( /\ desires'[a] # desires[a]
            /\ state[a].fuel_level <= RefuelUrgent
            /\ current_incident[a] # None )
          => LET ds == deliberate(state[a], current_incident[a])
             IN /\ Len(ds) = 2
                /\ ds[1].goal_id = "refuel" /\ ds[1].priority = 9
                /\ ds[2].goal_id = "complete_mission" /\ ds[2].priority = 8
                /\ Len(intentions'[a]) = 1
                /\ intentions'[a][1].desire.goal_id = "refuel"]_vars

-----------------------------------------------------------------------------

\* the intention a cycle of a acts on: the head of the filtered list
Retained(a) ==
    filter_intentions(PlanDesires(desires[a] \o deliberate(state[a], current_incident[a]),
                                  intentions[a]))

\* a step of a's reasoning cycle that changed something
Cycled(a) ==
    /\ net' = net
    /\ <<desires'[a], intentions'[a], state'[a], behaviour'[a]>>
          # <<desires[a], intentions[a], state[a], behaviour[a]>>

\* C26: act() executes the plan step at index current_step and then adds exactly one
\* to current_step; 0 <= current_step <= len(plan) always; an intention is completed
\* only with current_step = len(plan); no step is executed twice or skipped.
C26_ActStepsInOrder ==
    [][\A a \in Agents :
          /\ \A k \in 1..Len(intentions'[a]) :
                LET i == intentions'[a][k]
                IN /\ 0 <= i.current_step /\ i.current_step <= Len(i.plan)
                   /\ i.status = "completed" => i.current_step = Len(i.plan)
          /\ (Cycled(a) /\ Retained(a) # <<>>)
                => LET ci == Retained(a)[1]
                       out == intentions'[a][1]
                   IN /\ Len(intentions'[a]) = 1
                      /\ out.plan = ci.plan /\ out.desire = ci.desire
                      /\ IF ci.current_step = Len(ci.plan)
                         THEN /\ out.status = "completed"
                              /\ out.current_step = ci.current_step
                              /\ state'[a] = state[a]
                         ELSE IF behaviour'[a] # behaviour[a]
                              THEN out = ci /\ state'[a] = state[a]
                              ELSE /\ out.status = "active"
                                   /\ out.current_step = ci.current_step + 1
                                   /\ LET action == ci.plan[ci.current_step + 1]
                                      IN CASE action = "move_to_incident"
                                                -> state'[a] = move_to_incident(state[a],
                                                                                current_incident[a])
                                           [] action = "report_completion"
                                                -> /\ state'[a].status = "idle"
                                                   /\ current_incident'[a] = None
                                           [] OTHER -> state'[a] = state[a]]_vars

\* a mission intention was taken through its three steps and marked completed
C26_Witness ==
    \E a \in Agents :
        /\ OnMission(intentions[a])
        /\ intentions[a][1].status = "completed"
        /\ intentions[a][1].current_step = Len(intentions[a][1].plan)
        /\ state[a].status = "idle"
        /\ current_incident[a] = None

-----------------------------------------------------------------------------

\* the goals that the planning phase of a's next cycle gives a new intention
NewlyPlanned(a) ==
    LET ds == desires[a] \o deliberate(state[a], current_incident[a])
        planned == PlanDesires(ds, intentions[a])
    IN {planned[k].desire.goal_id : k \in (Len(intentions[a]) + 1)..Len(planned)}

ActiveGoals(ints) == {ints[k].desire.goal_id : k \in ActiveIn(ints)}

\* C27: in the planning phase a desire gets a new intention exactly when there is no
\* active intention of its goal id and generate_plan returns a plan.
C27_PlannedUnlessActive ==
    \A a \in Agents :
        LET ds == desires[a] \o deliberate(state[a], current_incident[a])
        IN (behaviour[a].action_execution = "running" /\ Len(ds) <= MaxDesires)
              => \A g \in GoalsOf(ds) :
                    g \in NewlyPlanned(a)
                       <=> /\ g \notin ActiveGoals(intentions[a])
                           /\ generate_plan([goal_id |-> g]) # None

-----------------------------------------------------------------------------

\* the order of the lifecycle REPORTED -> IN_PROGRESS -> RESOLVED
Rank(status) ==
    CASE status = "reported" -> 0
      [] status = "confirmed" -> 1
      [] status = "in_progress" -> 2
      [] status = "resolved" -> 3
      [] OTHER -> 4

\* C28: an incident's status only moves forward, it never returns to REPORTED and
\* never leaves RESOLVED; the incident changes only when its own agent accepts a bid
\* (or handles a resolution report, which sets RESOLVED and nothing else).
C28_StatusMovesForward ==
    [][\A i \in Incidents :
          /\ Rank(incident'[i].status) >= Rank(incident[i].status)
          /\ incident[i].status = "resolved" => incident'[i].status = "resolved"
          /\ incident'[i] # incident[i]
                => /\ WindowCloses(i)
                   /\ \E k \in (Len(log[i]) + 1)..Len(log'[i]) : log'[i][k].ev = "accept"
                   /\ incident'[i].status = "in_progress"
          /\ handle_status_update(incident'[i], [status |-> "resolved"]).status = "resolved"
          /\ handle_status_update(incident'[i], [status |-> "en_route"]) = incident'[i]]_vars

\* an incident in progress has accepted a second bid and is still in progress
C28_Witness ==
    \E i \in Incidents :
        /\ incident[i].status = "in_progress"
        /\ Cardinality(Events(i, "accept")) >= 2
        /\ Len(incident[i].assigned_agents) >= 2
        /\ \E j \in Incidents : incident[j].status = "reported"

-----------------------------------------------------------------------------
(* perceive as a function: percepts about the fuel and the mission, with or without
   a confidence and a source, are perceived one after the other. *)

MaxPercepts == 2     \* calls of perceive

PerceptKeys == {"fuel", "fuel_confidence", "source", "current_mission"}

FullPercepts ==
    [fuel : {"low", "full"}, fuel_confidence : {50}, source : {"drone"},
     current_mission : {"i1"}]

Percepts ==
    {[k \in D |-> r[k]] : r \in FullPercepts, D \in (SUBSET PerceptKeys) \ {{}}}

PerceiveCall(a) ==
    /\ IF probe = None THEN TRUE ELSE probe[1].n < MaxPercepts
    /\ \E percept \in Percepts :
          /\ beliefs' = [beliefs EXCEPT ![a] = perceive(@, percept)]
          /\ probe' = Some([agent |-> a, before |-> beliefs[a], percept |-> percept,
                            n |-> IF probe = None THEN 1 ELSE probe[1].n + 1])
    /\ UNCHANGED <<incident, proposals, cfp_runs, bm_pc, net, state, current_incident,
                   desires, intentions, behaviour, log, demo_vars>>

NextPerceive == \E a \in {"a1"} : PerceiveCall(a)

SpecPerceive == InitBelief /\ [][NextPerceive]_vars

\* C29: after perceive(percept) every key k of the percept has a belief with value
\* percept[k], confidence percept[k + "_confidence"] if that key is present and 1.0
\* if not, and source percept["source"] if present and "self" if not; a belief of the
\* same key is overwritten, beliefs of other keys are as before.
C29_PerceiveStores ==
    probe # None =>
       LET pc == probe[1].percept
           now == beliefs[probe[1].agent]
       IN /\ \A k \in DOMAIN pc :
                get_belief(now, k)
                   = Some([key |-> k,
                           value |-> pc[k],
                           confidence |-> IF ConfidenceKey(k) \in DOMAIN pc
                                          THEN pc[ConfidenceKey(k)] ELSE 100,
                           source |-> IF "source" \in DOMAIN pc THEN pc["source"] ELSE "self"])
          /\ \A k \in PerceptKeys \ DOMAIN pc :
                get_belief(now, k) = get_belief(probe[1].before, k)
          /\ \A x, y \in 1..Len(now) : now[x].key = now[y].key => x = y

\* a second percept gave the fuel another value, with a confidence and no source,
\* while the belief about the mission stayed
C29_Witness ==
    /\ probe # None
    /\ probe[1].n = MaxPercepts
    /\ DOMAIN probe[1].percept = {"fuel", "fuel_confidence"}
    /\ get_belief(probe[1].before, "fuel") # None
    /\ get_belief(probe[1].before, "fuel")[1].value # probe[1].percept["fuel"]
    /\ get_belief(probe[1].before, "current_mission") # None
    /\ get_belief(beliefs[probe[1].agent], "fuel")[1].confidence = 50

-----------------------------------------------------------------------------
(* An agent late in its service: every movement step took FuelPerMove off the full
   tank and nothing put fuel back (the steps move_to_base and refuel do nothing in
   act), so the fuel is down to a few thousandths. self.desires still holds the
   desires of the earlier cycles; planning takes the first desire of each goal, so
   the list starts with the refuel desire of the time the fuel first fell under
   RefuelBelow (priority 0.3) and the desire of the first mission. *)

EarlierDesires ==
    <<[goal_id |-> "refuel", description |-> "Refuel vehicle", priority |-> 3],
      [goal_id |-> "complete_mission", description |-> "i2", priority |-> 8]>>

InitService ==
    /\ incident = DefaultIncidents
    /\ \E l1 \in {4, 10}, f1 \in {2 * FuelPerMove, FuelPerMove, 0} :
          state = [a \in Agents |->
                     IF a = "a1" THEN NewAgentState(a, "fire_truck", l1, f1)
                                 ELSE NewAgentState(a, "ambulance", 10, FullFuel)]
    /\ \E n \in 0..MaxAccepts :
          \E from \in [1..n -> Incidents] :
             net = SeqToBag([k \in 1..n |->
                               accept_msg(DefaultIncidents[from[k]], [bidder_id |-> "a1"])])
    /\ proposals = [i \in Incidents |-> <<>>]
    /\ cfp_runs = [i \in Incidents |-> 1]
    /\ bm_pc = [i \in Incidents |-> "receive"]
    /\ current_incident = [a \in Agents |-> None]
    /\ desires = [a \in Agents |-> IF a = "a1" THEN EarlierDesires ELSE <<>>]
    /\ intentions = [a \in Agents |-> <<>>]
    /\ beliefs = [a \in Agents |-> <<>>]
    /\ behaviour = [a \in Agents |-> [cfp_listener |-> "running", action_execution |-> "running"]]
    /\ log = [i \in Incidents |-> <<>>]
    /\ probe = <<>>
    /\ NoDemo

SpecService == InitService /\ [][NextBDI]_vars

\* C30: the fuel level of a resource agent stays within [0, 1] (0..FullFuel in
\* thousandths) whatever BDI cycles and assignments happen; movement never makes it
\* negative.
C30_FuelInRange ==
    \A a \in Agents : 0 <= state[a].fuel_level /\ state[a].fuel_level <= FullFuel

-----------------------------------------------------------------------------
(* deliberate as a function of two actors: each has a fuel level and a mission
   binding of its own; type, place and status differ between them. *)

FuelLevels == {FullFuel, RefuelBelow, RefuelBelow - 1, RefuelUrgent + 1, RefuelUrgent, 0}

Bindings == {None, Some(Assignment("i1")), Some(Assignment("i2"))}

InitDeliberate ==
    /\ \E f1, f2 \in FuelLevels, s1 \in {"idle", "en_route"}, l2 \in {4, 10} :
          state = [a \in Agents |->
                     IF a = "a1"
                     THEN [NewAgentState(a, "fire_truck", 4, f1) EXCEPT !.status = s1]
                     ELSE NewAgentState(a, "ambulance", l2, f2)]
    /\ \E c1, c2 \in Bindings :
          current_incident = [a \in Agents |-> IF a = "a1" THEN c1 ELSE c2]
    /\ incident = DefaultIncidents
    /\ net = EmptyBag
    /\ proposals = [i \in Incidents |-> <<>>]
    /\ cfp_runs = [i \in Incidents |-> 0]
    /\ bm_pc = [i \in Incidents |-> "receive"]
    /\ desires = [a \in Agents |-> <<>>]
    /\ intentions = [a \in Agents |-> <<>>]
    /\ beliefs = [a \in Agents |-> <<>>]
    /\ behaviour = [a \in Agents |-> [cfp_listener |-> "running", action_execution |-> "running"]]
    /\ log = [i \in Incidents |-> <<>>]
    /\ probe = [a \in Agents |-> None]
    /\ NoDemo

DeliberateCall(a) ==
    /\ probe[a] = None
    /\ probe' = [probe EXCEPT ![a] = Some(deliberate(state[a], current_incident[a]))]
    /\ UNCHANGED <<incident, proposals, cfp_runs, bm_pc, net, state, current_incident,
                   desires, intentions, beliefs, behaviour, log, demo_vars>>

NextDeliberate == \E a \in Agents : DeliberateCall(a)

SpecDeliberate == InitDeliberate /\ [][NextDeliberate]_vars

\* C31: deliberate is deterministic: two actors with the same fuel level and the same
\* mission binding get the same sequence of desires (goal ids, priorities, order),
\* whatever else differs between them.
C31_DeliberateDeterministic ==
    \A a, b \in Agents :
       (/\ probe[a] # None
        /\ probe[b] # None
        /\ state[a].fuel_level = state[b].fuel_level
        /\ current_incident[a] = current_incident[b])
          => /\ Len(probe[a][1]) = Len(probe[b][1])
             /\ \A k \in 1..Len(probe[a][1]) :
                   /\ probe[a][1][k].goal_id = probe[b][1][k].goal_id
                   /\ probe[a][1][k].priority = probe[b][1][k].priority

\* an en-route fire truck and an idle ambulance at another place, both low on fuel
\* and bound to i1, have both deliberated: refuel, then complete_mission
C31_Witness ==
    /\ probe["a1"] # None
    /\ probe["a2"] # None
    /\ state["a1"].fuel_level = RefuelUrgent + 1
    /\ state["a2"].fuel_level = RefuelUrgent + 1
    /\ state["a1"].status = "en_route"
    /\ state["a2"].status = "idle"
    /\ state["a1"].location # state["a2"].location
    /\ current_incident["a1"] = Some(Assignment("i1"))
    /\ current_incident["a2"] = Some(Assignment("i1"))
    /\ Len(probe["a1"][1]) = 2
    /\ probe["a1"][1][1].goal_id = "refuel"
    /\ probe["a1"][1][2].goal_id = "complete_mission"

-----------------------------------------------------------------------------

\* the state _report_completion leaves and only it: IDLE, self.current_incident None,
\* the id of the finished mission still in state.current_incident
Reported(a) ==
    /\ state[a].status = "idle"
    /\ current_incident[a] = None
    /\ state[a].current_incident # "None"

\* C32: after report_completion and without a new ACCEPT, every later bdi_cycle leaves
\* the actor IDLE with no mission bound, executes no mission action and ends without
\* error.
C32_QuietAfterCompletion ==
    [][\A a \in Agents :
          (Reported(a) /\ Cycled(a))
             => /\ state'[a].status = "idle"
                /\ current_incident'[a] = None
                /\ behaviour'[a] = behaviour[a]
                /\ ~(/\ OnMission(Retained(a))
                     /\ Retained(a)[1].current_step < Len(Retained(a)[1].plan))]_vars

-----------------------------------------------------------------------------
(* An actor whose periodic behaviour has ended: a1 completed the mission i2, its
   later cycles planned the old complete_mission desire again and execute_response
   raised with no mission bound. A new ACCEPT for a1 is in flight; a2 is a fresh
   actor with at most one ACCEPT of its own. *)

MissionDesire(i) == deliberate(DefaultAgents["a1"], Some(Assignment(i)))[1]

InitStopped ==
    /\ incident = DefaultIncidents
    /\ \E l1 \in {4, 9}, l2 \in {4, 10} :
          state = [a \in Agents |->
                     IF a = "a1"
                     THEN [NewAgentState(a, "fire_truck", l1, FullFuel)
                              EXCEPT !.current_incident = "i2"]
                     ELSE NewAgentState(a, "ambulance", l2, FullFuel)]
    /\ \E i \in Incidents, n2 \in 0..1 :
          net = SetToBag({accept_msg(DefaultIncidents[i], [bidder_id |-> "a1"])})
                (+) SeqToBag([k \in 1..n2 |->
                                accept_msg(DefaultIncidents["i1"], [bidder_id |-> "a2"])])
    /\ proposals = [i \in Incidents |-> <<>>]
    /\ cfp_runs = [i \in Incidents |-> 1]
    /\ bm_pc = [i \in Incidents |-> "receive"]
    /\ current_incident = [a \in Agents |-> None]
    /\ desires = [a \in Agents |->
                    IF a = "a1" THEN [k \in 1..3 |-> MissionDesire("i2")] ELSE <<>>]
    /\ intentions = [a \in Agents |->
                       IF a = "a1"
                       THEN <<[means_end_reasoning(MissionDesire("i2"))[1]
                                  EXCEPT !.current_step = 1]>>
                       ELSE <<>>]
    /\ beliefs = [a \in Agents |->
                    IF a = "a1" THEN perceive(<<>>, commit_percept(Assignment("i2")))
                                ELSE <<>>]
    /\ behaviour = [a \in Agents |->
                      [cfp_listener |-> "running",
                       action_execution |-> IF a = "a1" THEN "killed" ELSE "running"]]
    /\ log = [i \in Incidents |-> <<>>]
    /\ probe = <<>>
    /\ NoDemo

SpecStopped == InitStopped /\ [][NextBDI]_vars /\ WF_vars(NextBDI)

\* C33: an actor that is committed to an incident and has no message waiting
\* eventually executes report_completion and is IDLE again with no mission bound.
C33_CommittedCompletes ==
    \A a \in Agents :
        (current_incident[a] # None /\ Inbox(a, {"accept"}) = {})
           ~> (state[a].status = "idle" /\ current_incident[a] = None)

-----------------------------------------------------------------------------

\* the actors an ACCEPT for incident i was sent to
Accepted(i) == {log[i][k].bidder : k \in Events(i, "accept")}

\* C34: assigned_agents of an incident holds each actor at most once, holds exactly
\* the actors an ACCEPT for the incident was sent to, and is empty while the incident
\* is REPORTED.
C34_AssignedOncePerAccept ==
    \A i \in Incidents :
       LET assigned == incident[i].assigned_agents
       IN /\ \A x, y \in 1..Len(assigned) : assigned[x] = assigned[y] => x = y
          /\ Assigned(i) = Accepted(i)
          /\ incident[i].status = "reported" => assigned = <<>>

-----------------------------------------------------------------------------

\* the messages a step puts into the net, the handled message m left aside
Replies(m) == net' (-) Receive(net, m)

\* C38: an actor that handles a coalition REQUEST sends exactly one reply, to the
\* requester: AGREE if evaluate_coalition_request is true, REFUSE if not; the reply
\* carries the coalition id of the request; the actor's status and current_incident
\* stay as they were.
C38_OneReplyPerRequest ==
    [][\A a \in Agents : \A m \in Inbox(a, {"request"}) :
          Taken(m)
             => /\ net' = Receive(net, m) (+) Replies(m)
                /\ BagCardinality(Replies(m)) = 1
                /\ \A r \in BagToSet(Replies(m)) :
                      /\ r.sender = a
                      /\ r.to = m.sender
                      /\ r.performative
                            = (IF evaluate_coalition_request(state[a], m.body)
                               THEN "agree" ELSE "refuse")
                      /\ r.body.coalition_id = m.body.coalition_id
                /\ state'[a] = state[a]
                /\ current_incident'[a] = current_incident[a]]_vars

\* an en-route actor has agreed to a request of severity HIGH; the AGREE is in flight
C38_Witness ==
    /\ probe # None
    /\ state[probe[1].agent].status = "en_route"
    /\ "severity" \in DOMAIN probe[1].request
    /\ probe[1].request.severity = HIGH
    /\ probe[1].decision
    /\ probe[1].reply.performative = "agree"
    /\ probe[1].reply.to = "a2"
    /\ BagIn(probe[1].reply, net)

-----------------------------------------------------------------------------
(* demo_mode.py: SimulatedAgent threads on the shared system_state.  One place is
   a line; a tick is half a unit.  A thread can be suspended between any two of its
   reads and writes of system_state; what it does to its own fields in between is
   seen by no other thread and goes with the next shared access. *)

DemoTicksPerUnit == 2
DemoStep == 4          \* move_speed 2.0
DemoArrive == 4        \* arrived below a distance of 2.0
DemoRange == 100       \* within range below a distance of 50

\* system_state["incidents"] in the order of the dict
IncidentOrder == <<"i1", "i2">>

demo_can_handle(agent_type, inc_type) ==
    \/ agent_type = "fire_truck" /\ inc_type \in {"fire", "structural_collapse"}
    \/ agent_type = "ambulance" /\ inc_type \in {"medical", "structural_collapse"}

\* a step whose length is twice the arrival distance
demo_step_too_far(from, target) ==
    IF target > from THEN from + 2 * DemoArrive ELSE from - 2 * DemoArrive

\* location += (dx / norm) * move_speed
demo_step_toward(from, target) ==
    IF target > from THEN from + DemoStep ELSE from - DemoStep

\* what run() writes to system_state["agents"]
Published(sa) ==
    [agent_id |-> sa.agent_id, agent_type |-> sa.agent_type, location |-> sa.location,
     status |-> sa.status, current_incident |-> sa.current_incident]

AtRun(a) == sim_pc[a].pc = "run"

\* SimulatedAgent.move_to_incident
demo_move_to_incident(sa) ==
    IF sa.current_incident = None
    THEN [sa EXCEPT !.status = "idle"]
    ELSE LET target == system_state.incidents[sa.current_incident[1]].location
         IN IF distance_to(sa.location, target) < DemoArrive
            THEN [sa EXCEPT !.status = "engaged"]
            ELSE [sa EXCEPT !.location = demo_step_toward(sa.location, target)]

\* run(): the branch on self.status.  An IDLE agent enters look_for_incidents, an
\* EN_ROUTE one moves, an ENGAGED one completes its mission.
Run(a) ==
    /\ AtRun(a)
    /\ IF sim_agent[a].status = "idle"
       THEN /\ sim_pc' = [sim_pc EXCEPT ![a] = [pc |-> "look", k |-> 1]]
            /\ UNCHANGED <<sim_agent, system_state>>
       ELSE IF sim_agent[a].status = "en_route"
            THEN /\ sim_agent' = [sim_agent EXCEPT ![a] = demo_move_to_incident(@)]
                 /\ sim_pc' = [sim_pc EXCEPT ![a].pc = "publish"]
                 /\ UNCHANGED system_state
            ELSE IF sim_agent[a].status = "engaged"
                 THEN /\ system_state' =
                            [system_state EXCEPT
                                !.incidents[sim_agent[a].current_incident[1]].status = "resolved"]
                      /\ sim_agent' = [sim_agent EXCEPT ![a].status = "idle",
                                                        ![a].current_incident = None]
                      /\ sim_pc' = [sim_pc EXCEPT ![a].pc = "publish"]
                 ELSE /\ sim_pc' = [sim_pc EXCEPT ![a].pc = "publish"]
                      /\ UNCHANGED <<sim_agent, system_state>>
    /\ UNCHANGED spade_vars

\* look_for_incidents: the test of one incident of the loop (line 57 to 71)
Look(a) ==
    /\ sim_pc[a].pc = "look"
    /\ IF sim_pc[a].k > Len(IncidentOrder)
       THEN sim_pc' = [sim_pc EXCEPT ![a] = [pc |-> "publish", k |-> 0]]
       ELSE LET inc == system_state.incidents[IncidentOrder[sim_pc[a].k]]
            IN IF /\ inc.status = "reported"
                  /\ demo_can_handle(sim_agent[a].agent_type, inc.incident_type)
                  /\ distance_to(sim_agent[a].location, inc.location) < DemoRange
               THEN sim_pc' = [sim_pc EXCEPT ![a].pc = "bind"]
               ELSE sim_pc' = [sim_pc EXCEPT ![a].k = @ + 1]
    /\ UNCHANGED <<sim_agent, system_state>>
    /\ UNCHANGED spade_vars

\* look_for_incidents: the agent takes the incident it has tested (line 72 to 76)
Bind(a) ==
    /\ sim_pc[a].pc = "bind"
    /\ sim_agent' = [sim_agent EXCEPT
                        ![a].current_incident = Some(IncidentOrder[sim_pc[a].k]),
                        ![a].status = "en_route"]
    /\ system_state' = [system_state EXCEPT
                           !.incidents[IncidentOrder[sim_pc[a].k]].status = "in_progress"]
    /\ sim_pc' = [sim_pc EXCEPT ![a] = [pc |-> "publish", k |-> 0]]
    /\ UNCHANGED spade_vars

\* run(): the update of the global state, then the sleep
Publish(a) ==
    /\ sim_pc[a].pc = "publish"
    /\ system_state' = [system_state EXCEPT !.agents[a] = Some(Published(sim_agent[a]))]
    /\ sim_pc' = [sim_pc EXCEPT ![a] = [pc |-> "run", k |-> 0]]
    /\ UNCHANGED sim_agent
    /\ UNCHANGED spade_vars

SimulatedAgent(a, type, location) ==
    [agent_id |-> a, agent_type |-> type, location |-> location, status |-> "idle",
     current_incident |-> None]

\* the incidents the drone has reported: a collapse at 0 and a fire or a medical
\* emergency at 8
InitDemo ==
    /\ \E l1 \in {3, 4, 9}, l2 \in {6, 120}, t2 \in {"fire_truck", "ambulance"} :
          sim_agent = [a \in Agents |->
                         IF a = "a1" THEN SimulatedAgent(a, "fire_truck", l1)
                                     ELSE SimulatedAgent(a, t2, l2)]
    /\ sim_pc = [a \in Agents |-> [pc |-> "run", k |-> 0]]
    /\ \E ty \in {"fire", "medical"} :
          system_state =
             [incidents |->
                 [i \in Incidents |->
                     [incident_id |-> i,
                      incident_type |-> IF i = "i1" THEN "structural_collapse" ELSE ty,
                      location |-> IF i = "i1" THEN 0 ELSE 8,
                      status |-> "reported"]],
              agents |-> [a \in Agents |-> None]]
    /\ incident = DefaultIncidents
    /\ state = DefaultAgents
    /\ net = EmptyBag
    /\ proposals = [i \in Incidents |-> <<>>]
    /\ cfp_runs = [i \in Incidents |-> 0]
    /\ bm_pc = [i \in Incidents |-> "receive"]
    /\ current_incident = [a \in Agents |-> None]
    /\ desires = [a \in Agents |-> <<>>]
    /\ intentions = [a \in Agents |-> <<>>]
    /\ beliefs = [a \in Agents |-> <<>>]
    /\ behaviour = [a \in Agents |-> [cfp_listener |-> "running", action_execution |-> "running"]]
    /\ log = [i \in Incidents |-> <<>>]
    /\ probe = <<>>

NextDemo ==
    \/ \E a \in Agents : Run(a)
    \/ \E a \in Agents : Look(a)
    \/ \E a \in Agents : Bind(a)
    \/ \E a \in Agents : Publish(a)

SpecDemo == InitDemo /\ [][NextDemo]_vars

\* the steps of one thread
Thread(a) == Run(a) \/ Look(a) \/ Bind(a) \/ Publish(a)

\* every thread gets its turn
SpecDemoFair == SpecDemo /\ \A a \in Agents : WF_vars(Thread(a))

\* the agents bound to incident i
BoundTo(i) == {a \in Agents : sim_agent[a].current_incident = Some(i)}

\* C35: of the SimulatedAgent threads that run look_for_incidents at the same time,
\* at most one ever binds itself to a given reported incident: an agent that binds
\* itself finds the incident still reported and bound to no one.
C35_OneAgentPerIncident ==
    [][\A a \in Agents : \A i \in Incidents :
          (a \notin BoundTo(i) /\ sim_agent'[a].current_incident = Some(i))
             => /\ system_state.incidents[i].status = "reported"
                /\ BoundTo(i) = {}]_vars

\* C36: under every interleaving of the threads the status of an incident in the
\* shared state only moves forward, reported -> in_progress -> resolved.
C36_DemoStatusForward ==
    [][\A i \in Incidents :
          Rank(system_state'.incidents[i].status)
             >= Rank(system_state.incidents[i].status)]_vars

DemoBusy(a) == sim_agent[a].status \in {"en_route", "engaged"}

\* C37: an EN_ROUTE SimulatedAgent becomes ENGAGED, an ENGAGED one marks its incident
\* resolved and is IDLE again with current_incident cleared; current_incident is set
\* exactly when the status is EN_ROUTE or ENGAGED.
C37_DemoMissionEnds ==
    /\ [](\A a \in Agents : sim_agent[a].current_incident # None <=> DemoBusy(a))
    /\ \A a \in Agents : \A i \in Incidents :
          /\ (sim_agent[a].status = "en_route" /\ a \in BoundTo(i))
                ~> (sim_agent[a].status = "engaged" /\ a \in BoundTo(i))
          /\ (sim_agent[a].status = "engaged" /\ a \in BoundTo(i))
                ~> (/\ sim_agent[a].status = "idle"
                    /\ sim_agent[a].current_incident = None
                    /\ system_state.incidents[i].status = "resolved")

\* a1 started 4.5 units from the collapse, moved twice, engaged, resolved it and has
\* published that it is idle again
C37_Witness ==
    /\ sim_agent["a1"].location = 1
    /\ sim_agent["a1"].status = "idle"
    /\ sim_agent["a1"].current_incident = None
    /\ system_state.incidents["i1"].status = "resolved"
    /\ system_state.agents["a1"] = Some(Published(sim_agent["a1"]))

====
